---- MODULE Spec2Model ----
(***************************************************************************)
(* Bangazon API: the cart / order engine.                                  *)
(*                                                                         *)
(* The database tables Order and OrderProduct are the shared state; every  *)
(* HTTP request is handled by a worker that runs the view's ORM calls one  *)
(* at a time, so two requests interleave between any two ORM calls.        *)
(* Views modelled: Profile.cart (GET / POST / DELETE), Orders.update,      *)
(* Orders.complete and Orders.clear_cart.                                  *)
(***************************************************************************)
EXTENDS Integers, Sequences, FiniteSets, TLC

\* ------------------------------------------------------------------ bounds
MaxOrders == 2          \* order rows ever inserted
MaxLineItems == 2       \* line-item rows ever inserted
MaxTime == 2            \* readings of the server clock
MaxRequests == 3        \* requests ever received
MaxRatings == 2         \* ProductRating rows
MaxFavorites == 2       \* Favorite rows ever inserted
MaxLikes == 2           \* FavoriteProduct rows ever inserted
MaxProducts == 1        \* Product rows ever created by POST /products
MaxSold == 1            \* line-item rows of the catalog a product list reads

\* ------------------------------------------------------------ fixed data
NULL == 0                          \* None / SQL NULL (primary keys start at 1)
Customers == {1, 2}                \* Customer rows (one per authenticated user)
Workers == {1, 2}                  \* request handlers running at the same time
Products == {1, 2}                 \* Product rows
ProductIds == Products \cup {3}    \* product_id values a client may send
PaymentIds == {1, 2, 3}            \* payment_type values a client may send
Payments == {1, 2}                 \* Payment rows
PaymentCustomer(p) == p            \* Payment row p belongs to customer p
OrderIds == 1..MaxOrders           \* pk values a client may send
UpdateValues == {NULL, 1}          \* payment_type values sent to Orders.update

NoOrder == [id |-> NULL, customer |-> NULL, payment_type |-> NULL,
            completed_date |-> NULL]
NoBody == [order |-> NULL, line_items |-> {}, size |-> 0]
Idle == [op |-> "none", caller |-> NULL, pk |-> NULL, arg |-> NULL,
         pc |-> "idle", found |-> 0, read |-> NoOrder, obj |-> NoOrder,
         status |-> 0, body |-> NoBody, closed |-> FALSE]
NoRun == [ok |-> FALSE, prods |-> <<>>, order |-> NULL]

RatingValues == 1..5               \* values of ProductRating.rating
Stores == {1, 2}                   \* Store rows
StoreSeller(s) == s                \* Store row s is sold by customer s
StoreIds == {NULL, 1, 2, 3}        \* store_id values a client may send (NULL: none)
FavoriteIds == 0..MaxFavorites     \* favorite_id values a client may send (0: none)
NoAverage == [product |-> NULL, value |-> [num |-> 0, den |-> 1]]
FIdle == [op |-> "none", caller |-> NULL, arg |-> NULL, pc |-> "idle",
          row |-> NULL, status |-> 0, body |-> NULL, retried |-> FALSE]

Categories == {1, 2}               \* ProductCategory rows
Dollars(n) == n * 100              \* prices are kept in cents
FirstNewProductId == 4             \* the ids of ProductIds have been handed out
\* the Product rows behind the ids of Products
DefaultProducts == {[id |-> p, price |-> Dollars(10 * p), quantity |-> p,
                     store |-> p, category |-> p, location |-> <<"A", "b">>]
                    : p \in Products}
NoListing == [op |-> "none", query |-> NULL, status |-> 0, body |-> {}]

VARIABLES
    orders,        \* table Order: rows [id, customer, payment_type, completed_date]
    lineitems,     \* table OrderProduct: rows [id, order, product]
    nextOrderId,   \* AUTOINCREMENT sequence of Order.id
    nextLineId,    \* AUTOINCREMENT sequence of OrderProduct.id
    now,           \* server clock, datetime.now()
    reqs,          \* per worker: the request it handles, its locals, its response
    issued,        \* number of requests received so far
    run            \* per customer: the run of successive add-to-cart calls
                   \* made since the customer had no open order (history)

VARIABLES
    ratings,        \* table ProductRating, in id order: rows [product, rating]
    average,        \* the last average_rating read: [product, value]
    likes,          \* table FavoriteProduct: rows [id, user, product]
    favorites,      \* table Favorite: rows [id, customer, seller]
    nextLikeId,     \* AUTOINCREMENT sequence of FavoriteProduct.id
    nextFavoriteId, \* AUTOINCREMENT sequence of Favorite.id
    freqs,          \* per worker: the like / favorite request it handles
    fissued         \* number of like / favorite requests received so far

VARIABLES
    products,       \* table Product: rows [id, price, quantity, store, category,
                    \* location]; price in cents
    nextProductId,  \* AUTOINCREMENT sequence of Product.id
    listing         \* the last response of a product list or of a report

cartVars == <<orders, lineitems, nextOrderId, nextLineId, now, reqs, issued, run>>
ratingVars == <<ratings, average>>
favVars == <<likes, favorites, nextLikeId, nextFavoriteId, freqs, fissued>>
catalogVars == <<products, nextProductId, listing>>
otherVars == <<ratingVars, favVars, catalogVars>>

vars == <<cartVars, otherVars>>

\* ------------------------------------------------------------ ORM queries
\* Order.objects.filter(customer=c, payment_type=None)
OpenOrders(c) == {o \in orders : o.customer = c /\ o.payment_type = NULL}

\* the same lookup without the owner: Order.objects.filter(pk=pk)
OrderGetAnyOwner(pk, c) == {o \in orders : o.id = pk}

\* Order.objects.filter(pk=pk, customer=c)
OrderGet(pk, c) == {o \in orders : o.id = pk /\ o.customer = c}

\* Order.objects.filter(id=pk, customer=c, payment_type=None)
OpenOrderGet(pk, c) == {o \in OrderGet(pk, c) : o.payment_type = NULL}

\* OrderProduct.objects.filter(order=o)
LineItemsOf(oid) == {li \in lineitems : li.order = oid}

\* Model.save() of an instance that has a pk: UPDATE the row, INSERT it when
\* no row has that pk
Save(o) == {x \in orders : x.id # o.id} \cup {o}

\* ------------------------------------------------------------ bookkeeping
Busy(r) == reqs[r].pc \notin {"idle", "done"}

\* A worker takes a new request when it is free
CanAccept(r) == ~Busy(r) /\ issued < MaxRequests

\* the response leaves the handler; its locals go out of scope
Respond(q, st, b) == [q EXCEPT !.pc = "done", !.status = st, !.body = b,
                               !.obj = NoOrder]

\* another writing request of customer c is being handled by a worker other than r
Overlaps(c, r) == \E q \in Workers \ {r} :
                     /\ Busy(q)
                     /\ reqs[q].caller = c
                     /\ reqs[q].op # "cart_get"

BreakRun(c) == [run EXCEPT ![c] = NoRun]

\* ------------------------------------------------- Profile.cart, POST
\* The customer's completed orders that hold exactly one line item
ClosedWithOneItem(c) == {o \in orders : /\ o.customer = c
                                        /\ o.payment_type # NULL
                                        /\ Cardinality(LineItemsOf(o.id)) = 1}

\* profile.py 133, 276-279: Order.objects.get(customer=current_user,
\* payment_type=None); DoesNotExist is caught, MultipleObjectsReturned is not
CartPostGet(r) ==
    /\ CanAccept(r)
    /\ \E c \in Customers, p \in ProductIds :
         LET open == OpenOrders(c)
             n == Cardinality(open)
             q == [Idle EXCEPT !.op = "cart_post", !.caller = c, !.arg = p,
                               !.found = n,
                               !.closed = (n = 0 /\ ClosedWithOneItem(c) # {})]
         IN /\ reqs' = [reqs EXCEPT ![r] =
                  IF n = 0 THEN [q EXCEPT !.pc = "create"]
                  ELSE IF n = 1
                       THEN LET o == CHOOSE x \in open : TRUE
                            IN [q EXCEPT !.pc = "item", !.read = o, !.obj = o]
                       ELSE Respond(q, 500, NoBody)]
            /\ run' = IF Overlaps(c, r) \/ n > 1 THEN BreakRun(c)
                      ELSE IF n = 0
                           THEN [run EXCEPT ![c] = [NoRun EXCEPT !.ok = TRUE]]
                           ELSE run
    /\ issued' = issued + 1
    /\ UNCHANGED <<otherVars, orders, lineitems, nextOrderId, nextLineId, now>>

\* profile.py 280-283: open_order = Order(); ...; open_order.save()
NewOrder(id, c) == [id |-> id, customer |-> c, payment_type |-> NULL,
                    completed_date |-> NULL]

CartPostCreate(r) ==
    /\ reqs[r].op = "cart_post" /\ reqs[r].pc = "create"
    /\ nextOrderId <= MaxOrders
    /\ LET o == NewOrder(nextOrderId, reqs[r].caller)
       IN /\ orders' = orders \cup {o}
          /\ reqs' = [reqs EXCEPT ![r] = [@ EXCEPT !.pc = "item", !.obj = o]]
          /\ run' = [run EXCEPT ![reqs[r].caller] =
                        IF @.ok THEN [@ EXCEPT !.order = o.id] ELSE @]
    /\ nextOrderId' = nextOrderId + 1
    /\ UNCHANGED <<otherVars, lineitems, nextLineId, now, issued>>

\* the same row with the product taken from the row's own id
NewLineItemOtherProduct(id, oid, p) == [id |-> id, order |-> oid, product |-> id]

\* profile.py 285-289: line_item = OrderProduct(); product, order; save()
NewLineItem(id, oid, p) == [id |-> id, order |-> oid, product |-> p]

\* profile.py 285-295.  Product.objects.get raises Product.DoesNotExist for an
\* unknown product_id (uncaught: 500).  The insert of a row whose order is
\* gone violates the foreign key (IntegrityError, uncaught: 500).
CartPostItem(r) ==
    /\ reqs[r].op = "cart_post" /\ reqs[r].pc = "item"
    /\ LET q == reqs[r]
           c == q.caller
       IN IF q.arg \notin Products \/ (\A o \in orders : o.id # q.obj.id)
          THEN /\ reqs' = [reqs EXCEPT ![r] = Respond(q, 500, NoBody)]
               /\ run' = BreakRun(c)
               /\ UNCHANGED <<otherVars, lineitems, nextLineId>>
          ELSE /\ nextLineId <= MaxLineItems
               /\ LET li == NewLineItem(nextLineId, q.obj.id, q.arg)
                  IN /\ lineitems' = lineitems \cup {li}
                     /\ reqs' = [reqs EXCEPT ![r] =
                           Respond(q, 200, [order |-> li.order,
                                            line_items |-> {li}, size |-> 1])]
               /\ nextLineId' = nextLineId + 1
               /\ run' = [run EXCEPT ![c] =
                             IF @.ok THEN [@ EXCEPT !.prods = Append(@, q.arg)]
                             ELSE @]
    /\ UNCHANGED <<otherVars, orders, nextOrderId, now, issued>>

\* ------------------------------------------------- Orders.complete
\* order.py 183-189, 192-200: the order is looked up by pk and owner, the
\* payment by pk only; neither the order's state nor the payment's owner is
\* looked at.  completed_date is the server clock.
CompleteGet(r) ==
    /\ CanAccept(r)
    /\ \E c \in Customers, pk \in OrderIds, p \in PaymentIds :
         LET got == OrderGet(pk, c)
             q == [Idle EXCEPT !.op = "complete", !.caller = c, !.pk = pk,
                               !.arg = p, !.found = Cardinality(got)]
         IN /\ IF got = {}
               THEN /\ reqs' = [reqs EXCEPT ![r] = Respond(q, 404, NoBody)]
                    /\ now' = now
               ELSE LET o == CHOOSE x \in got : TRUE
                    IN IF p \notin Payments
                       THEN /\ reqs' = [reqs EXCEPT ![r] =
                                  Respond([q EXCEPT !.read = o], 400, NoBody)]
                            /\ now' = now
                       ELSE /\ now < MaxTime
                            /\ now' = now + 1
                            /\ reqs' = [reqs EXCEPT ![r] =
                                  [q EXCEPT !.pc = "save", !.read = o,
                                            !.obj = [o EXCEPT
                                               !.payment_type = p,
                                               !.completed_date = now + 1]]]
            /\ run' = BreakRun(c)
    /\ issued' = issued + 1
    /\ UNCHANGED <<otherVars, orders, lineitems, nextOrderId, nextLineId>>

\* order.py 190-191: order.save(); 204
CompleteSave(r) ==
    /\ reqs[r].op = "complete" /\ reqs[r].pc = "save"
    /\ orders' = Save(reqs[r].obj)
    /\ reqs' = [reqs EXCEPT ![r] = Respond(@, 204, NoBody)]
    /\ UNCHANGED <<otherVars, lineitems, nextOrderId, nextLineId, now, issued, run>>

\* ------------------------------------------------- Orders.update
\* order.py 129-131.  Nothing is caught: Order.DoesNotExist is a 500.  The
\* request's payment_type is assigned to the foreign-key attribute as it is:
\* Django accepts None and raises ValueError for any value that is not a
\* Payment instance, as every id is (500).
UpdateGet(r) ==
    /\ CanAccept(r)
    /\ \E c \in Customers, pk \in OrderIds, p \in UpdateValues :
         LET got == OrderGet(pk, c)
             q == [Idle EXCEPT !.op = "update", !.caller = c, !.pk = pk,
                               !.arg = p, !.found = Cardinality(got)]
         IN /\ IF got = {}
               THEN reqs' = [reqs EXCEPT ![r] = Respond(q, 500, NoBody)]
               ELSE LET o == CHOOSE x \in got : TRUE
                    IN IF p # NULL
                       THEN reqs' = [reqs EXCEPT ![r] =
                               Respond([q EXCEPT !.read = o], 500, NoBody)]
                       ELSE reqs' = [reqs EXCEPT ![r] =
                               [q EXCEPT !.pc = "save", !.read = o,
                                         !.obj = [o EXCEPT !.payment_type = NULL]]]
            /\ run' = BreakRun(c)
    /\ issued' = issued + 1
    /\ UNCHANGED <<otherVars, orders, lineitems, nextOrderId, nextLineId, now>>

\* order.py 132-134: order.save(); 204
UpdateSave(r) ==
    /\ reqs[r].op = "update" /\ reqs[r].pc = "save"
    /\ orders' = Save(reqs[r].obj)
    /\ reqs' = [reqs EXCEPT ![r] = Respond(@, 204, NoBody)]
    /\ UNCHANGED <<otherVars, lineitems, nextOrderId, nextLineId, now, issued, run>>

\* ------------------------------------------------- Orders.clear_cart
\* order.py 202-204, 207-208
ClearCartGet(r) ==
    /\ CanAccept(r)
    /\ \E c \in Customers, pk \in OrderIds :
         LET got == OpenOrderGet(pk, c)
             q == [Idle EXCEPT !.op = "clear_cart", !.caller = c, !.pk = pk,
                               !.found = Cardinality(got)]
         IN /\ IF got = {}
               THEN reqs' = [reqs EXCEPT ![r] = Respond(q, 404, NoBody)]
               ELSE LET o == CHOOSE x \in got : TRUE
                    IN reqs' = [reqs EXCEPT ![r] =
                          [q EXCEPT !.pc = "items", !.read = o, !.obj = o]]
            /\ run' = BreakRun(c)
    /\ issued' = issued + 1
    /\ UNCHANGED <<otherVars, orders, lineitems, nextOrderId, nextLineId, now>>

\* order.py 205-206: OrderProduct.objects.filter(order=open_order).delete()
ClearCartItems(r) ==
    /\ reqs[r].op = "clear_cart" /\ reqs[r].pc = "items"
    /\ lineitems' = lineitems \ LineItemsOf(reqs[r].obj.id)
    /\ reqs' = [reqs EXCEPT ![r] = Respond(@, 204, NoBody)]
    /\ UNCHANGED <<otherVars, orders, nextOrderId, nextLineId, now, issued, run>>

\* ------------------------------------------------- Profile.cart, DELETE
\* profile.py 133, 149-151, 155-158.  The lookup is written twice; the first
\* result is dropped, so the pair behaves as one lookup made at the moment of
\* whichever of the two decides the outcome.
CartDeleteGet(r) ==
    /\ CanAccept(r)
    /\ \E c \in Customers :
         LET open == OpenOrders(c)
             n == Cardinality(open)
             q == [Idle EXCEPT !.op = "cart_delete", !.caller = c, !.found = n]
         IN /\ reqs' = [reqs EXCEPT ![r] =
                  IF n = 0 THEN Respond(q, 404, NoBody)
                  ELSE IF n = 1
                       THEN LET o == CHOOSE x \in open : TRUE
                            IN [q EXCEPT !.pc = "items", !.read = o, !.obj = o]
                       ELSE Respond(q, 500, NoBody)]
            /\ run' = BreakRun(c)
    /\ issued' = issued + 1
    /\ UNCHANGED <<otherVars, orders, lineitems, nextOrderId, nextLineId, now>>

\* profile.py 152-153: line_items.delete()
CartDeleteItems(r) ==
    /\ reqs[r].op = "cart_delete" /\ reqs[r].pc = "items"
    /\ lineitems' = lineitems \ LineItemsOf(reqs[r].obj.id)
    /\ reqs' = [reqs EXCEPT ![r] = [@ EXCEPT !.pc = "order"]]
    /\ UNCHANGED <<otherVars, orders, nextOrderId, nextLineId, now, issued, run>>

\* a foreign key that lets the line items outlive their order
CascadeNothing(oid) == {}

\* OrderProduct.order is a foreign key with on_delete CASCADE: deleting an
\* order deletes the line items that reference it
Cascade(oid) == LineItemsOf(oid)

\* profile.py 154, 160: open_order.delete(); 204
CartDeleteOrder(r) ==
    /\ reqs[r].op = "cart_delete" /\ reqs[r].pc = "order"
    /\ orders' = {o \in orders : o.id # reqs[r].obj.id}
    /\ lineitems' = lineitems \ Cascade(reqs[r].obj.id)
    /\ reqs' = [reqs EXCEPT ![r] = Respond(@, 204, NoBody)]
    /\ UNCHANGED <<otherVars, nextOrderId, nextLineId, now, issued, run>>

\* ------------------------------------------------- Profile.cart, GET
\* profile.py 133, 214-215, 228-231
CartGetOrder(r) ==
    /\ CanAccept(r)
    /\ \E c \in Customers :
         LET open == OpenOrders(c)
             n == Cardinality(open)
             q == [Idle EXCEPT !.op = "cart_get", !.caller = c, !.found = n]
         IN reqs' = [reqs EXCEPT ![r] =
                  IF n = 0 THEN Respond(q, 404, NoBody)
                  ELSE IF n = 1
                       THEN LET o == CHOOSE x \in open : TRUE
                            IN [q EXCEPT !.pc = "items", !.read = o, !.obj = o]
                       ELSE Respond(q, 500, NoBody)]
    /\ issued' = issued + 1
    /\ UNCHANGED <<otherVars, orders, lineitems, nextOrderId, nextLineId, now, run>>

\* the same cart with size counting the line items of every order
CartBodySizeOfAll(o, items) == [order |-> o.id, line_items |-> items,
                                size |-> Cardinality(lineitems)]

\* profile.py 221-226: the cart is the order with line_items and
\* size = len(line_items)
CartBody(o, items) == [order |-> o.id, line_items |-> items,
                       size |-> Cardinality(items)]

\* profile.py 216-226, 233: the line items are read when they are serialized
CartGetItems(r) ==
    /\ reqs[r].op = "cart_get" /\ reqs[r].pc = "items"
    /\ reqs' = [reqs EXCEPT ![r] =
          Respond(@, 200, CartBody(reqs[r].obj, LineItemsOf(reqs[r].obj.id)))]
    /\ UNCHANGED <<otherVars, orders, lineitems, nextOrderId, nextLineId, now, issued, run>>

\* ------------------------------------------------- single line-item removal
\* remove_line_item(customer, line_item_id): deletes one line item of the
\* caller's own open order, after checking ownership and openness; 404
\* otherwise.
LineItemIds == 1..MaxLineItems     \* line-item ids a client may send

RemovableItems(id, c) ==
    {li \in lineitems : /\ li.id = id
                        /\ \E o \in OpenOrders(c) : o.id = li.order}

LineItemDestroy(r) ==
    /\ CanAccept(r)
    /\ \E c \in Customers, id \in LineItemIds :
         LET got == RemovableItems(id, c)
             q == [Idle EXCEPT !.op = "lineitem_delete", !.caller = c,
                               !.pk = id, !.found = Cardinality(got)]
         IN /\ lineitems' = lineitems \ got
            /\ reqs' = [reqs EXCEPT ![r] =
                  Respond(q, IF got = {} THEN 404 ELSE 204, NoBody)]
            /\ run' = BreakRun(c)
    /\ issued' = issued + 1
    /\ UNCHANGED <<otherVars, orders, nextOrderId, nextLineId, now>>

\* ------------------------------------------------- specifications
Init ==
    /\ orders = {}
    /\ lineitems = {}
    /\ nextOrderId = 1
    /\ nextLineId = 1
    /\ now = 0
    /\ reqs = [r \in Workers |-> Idle]
    /\ issued = 0
    /\ run = [c \in Customers |-> NoRun]
    /\ ratings = <<>>
    /\ average = NoAverage
    /\ likes = {}
    /\ favorites = {}
    /\ nextLikeId = 1
    /\ nextFavoriteId = 1
    /\ freqs = [r \in Workers |-> FIdle]
    /\ fissued = 0
    /\ products = DefaultProducts
    /\ nextProductId = FirstNewProductId
    /\ listing = NoListing

\* only add-to-cart requests arrive
NextAdd == \E r \in Workers :
    \/ CartPostGet(r)
    \/ CartPostCreate(r)
    \/ CartPostItem(r)

Next == \E r \in Workers :
    \/ CartPostGet(r)
    \/ CartPostCreate(r)
    \/ CartPostItem(r)
    \/ CompleteGet(r)
    \/ CompleteSave(r)
    \/ UpdateGet(r)
    \/ UpdateSave(r)
    \/ ClearCartGet(r)
    \/ ClearCartItems(r)
    \/ CartDeleteGet(r)
    \/ CartDeleteItems(r)
    \/ CartDeleteOrder(r)
    \/ CartGetOrder(r)
    \/ CartGetItems(r)
    \/ LineItemDestroy(r)

Spec == Init /\ [][Next]_vars

SpecAdd == Init /\ [][NextAdd]_vars

TypeOK ==
    /\ \A o \in orders : o.id \in 1..MaxOrders /\ o.customer \in Customers
    /\ \A a \in orders, b \in orders : a.id = b.id => a = b
    /\ \A li \in lineitems : li.id \in 1..MaxLineItems /\ li.product \in Products
    /\ now \in 0..MaxTime
    /\ issued \in 0..MaxRequests

\* only add-to-cart and complete requests arrive
NextCheckout == \E r \in Workers :
    \/ CartPostGet(r)
    \/ CartPostCreate(r)
    \/ CartPostItem(r)
    \/ CompleteGet(r)
    \/ CompleteSave(r)

SpecCheckout == Init /\ [][NextCheckout]_vars

\* ------------------------------------------------- claims
\* the response of worker r to a request of kind op has been sent
Answered(r, op) == reqs[r].op = op /\ reqs[r].pc = "done"

\* the payment exists and belongs to customer c
ValidPayment(p, c) == p \in Payments /\ PaymentCustomer(p) = c

\* C1: under any interleaving of add-to-cart requests, a customer has at
\* most one order whose payment_type is null.
C1_SingleOpenOrder ==
    \A c \in Customers : Cardinality(OpenOrders(c)) <= 1

\* C2: an order's payment_type is non-null if and only if its completed_date
\* is non-null.
C2_OpenOrCompleted ==
    \A o \in orders : (o.payment_type # NULL) <=> (o.completed_date # NULL)

\* C3: completion is terminal: an order that has a payment_type never has a
\* null payment_type again.
C3_CompletionTerminal ==
    [][\A o \in orders : o.payment_type # NULL =>
          \A n \in orders' : n.id = o.id => n.payment_type # NULL]_vars

\* C4: a complete call with a valid payment on an order that is already
\* completed is answered with an error and never changes an order.
C4_SecondCompleteFails ==
    [][\A r \in Workers :
          (/\ reqs'[r] # reqs[r]
           /\ reqs'[r].op = "complete"
           /\ reqs'[r].read.payment_type # NULL
           /\ ValidPayment(reqs'[r].arg, reqs'[r].caller))
          => /\ orders' = orders
             /\ reqs'[r].pc = "done" => reqs'[r].status >= 400]_vars

\* C5: of two complete requests that both read the same order while it was
\* Open, at most one succeeds.
C5_AtMostOneCompletes ==
    \A r1 \in Workers, r2 \in Workers :
        (/\ r1 # r2
         /\ Answered(r1, "complete") /\ Answered(r2, "complete")
         /\ reqs[r1].read.id # NULL
         /\ reqs[r1].read.id = reqs[r2].read.id
         /\ reqs[r1].read.payment_type = NULL
         /\ reqs[r2].read.payment_type = NULL)
        => ~(reqs[r1].status = 204 /\ reqs[r2].status = 204)

\* C6: a request to add a product, made by a customer whose order with one
\* line item has been completed, is rejected with a 4xx status.
C6_ClosedOrderAddRejected ==
    \A r \in Workers :
        (Answered(r, "cart_post") /\ reqs[r].closed)
        => reqs[r].status \in 400..499

\* C7: Orders.complete never changes an order of a customer other than the
\* caller, and answers 404 when the order named belongs to someone else.
C7_NoForeignCompletion ==
    [][\A r \in Workers :
          (reqs'[r] # reqs[r] /\ reqs'[r].op = "complete")
          => /\ \A o \in orders \cup orders' :
                    o.customer # reqs'[r].caller
                    => (o \in orders /\ o \in orders')
             /\ (/\ reqs'[r].pc = "done"
                 /\ \E o \in orders : /\ o.id = reqs'[r].pk
                                      /\ o.customer # reqs'[r].caller)
                => reqs'[r].status = 404]_vars

\* C7 witness: a complete call naming another customer's existing order was
\* answered 404.
C7_Witness ==
    \E r \in Workers :
        /\ Answered(r, "complete")
        /\ reqs[r].status = 404
        /\ \E o \in orders : o.id = reqs[r].pk /\ o.customer # reqs[r].caller

\* C8: Orders.complete succeeds only with a payment that exists and belongs
\* to the caller.
C8_PaymentOwnedByCaller ==
    \A r \in Workers :
        (Answered(r, "complete") /\ reqs[r].status = 204)
        => ValidPayment(reqs[r].arg, reqs[r].caller)

\* C9: GET /profile/cart answers 404 when it finds no open order of the
\* caller, and 200 with size = number of line items when one exists.
C9_CartViewStatus ==
    \A r \in Workers :
        Answered(r, "cart_get")
        => /\ reqs[r].found = 0 => reqs[r].status = 404
           /\ reqs[r].found >= 1 =>
                 /\ reqs[r].status = 200
                 /\ reqs[r].body.size = Cardinality(reqs[r].body.line_items)

\* the products of a set of line items, in the order of the line items' ids
ProductsById(items) ==
    [i \in 1..Cardinality(items) |->
        (CHOOSE li \in items :
            Cardinality({x \in items : x.id < li.id}) = i - 1).product]

\* C10: after n >= 1 successive successful add-to-cart calls that started
\* from no open order, the cart view is the single open order created by
\* the first call, with size n and n line items, one per call, each with
\* the product of its call.
C10_SuccessiveAdds ==
    \A c \in Customers :
        (run[c].ok /\ Len(run[c].prods) >= 1)
        => /\ Cardinality(OpenOrders(c)) = 1
           /\ \A o \in OpenOrders(c) :
                 LET cart == CartBody(o, LineItemsOf(o.id))
                 IN /\ o.id = run[c].order
                    /\ cart.size = Len(run[c].prods)
                    /\ Cardinality(cart.line_items) = Len(run[c].prods)
                    /\ ProductsById(cart.line_items) = run[c].prods

\* C10 witness: two successive add-to-cart calls with different products
\* have been answered.
C10_Witness ==
    \E c \in Customers :
        /\ run[c].ok
        /\ Len(run[c].prods) = 2
        /\ run[c].prods[1] # run[c].prods[2]
        /\ \A r \in Workers : ~Busy(r)

\* ------------------------------------------------- derived product fields
\* the same count without the filter on the order's payment
NumberSoldAnyOrder(p) == Cardinality({li \in lineitems : li.product = p})

\* product.py 54-64: OrderProduct.objects.filter(product=self,
\* order__payment_type__isnull=False).count()
NumberSold(p) ==
    Cardinality({li \in lineitems :
                    /\ li.product = p
                    /\ \E o \in orders : /\ o.id = li.order
                                         /\ o.payment_type # NULL})

\* profile.py 214-233: GET /profile/cart run without interruption
CartView(c) ==
    LET open == OpenOrders(c)
    IN IF open = {} THEN [status |-> 404, body |-> NoBody]
       ELSE IF Cardinality(open) = 1
            THEN LET o == CHOOSE x \in open : TRUE
                 IN [status |-> 200, body |-> CartBody(o, LineItemsOf(o.id))]
            ELSE [status |-> 500, body |-> NoBody]

\* worker r takes a step of a request of one of the kinds ops
Acts(r, ops) == reqs'[r] # reqs[r] /\ reqs'[r].op \in ops

\* C11: when the cart view shows one line item and that item is removed
\* (single-item removal, or Orders.clear_cart on the cart's order, answered
\* 204), the cart view afterwards is 200 with the same order, size 0 and no
\* line items.
C11_RemoveThenEmpty ==
    [][\A r \in Workers, c \in Customers :
          LET q == reqs'[r]
              v == CartView(c)
          IN (/\ Acts(r, {"clear_cart", "lineitem_delete"})
              /\ q.caller = c
              /\ q.pc = "done" /\ q.status = 204
              /\ v.status = 200
              /\ Cardinality(v.body.line_items) = 1
              /\ q.op = "clear_cart" => q.read.id = v.body.order
              /\ q.op = "lineitem_delete" =>
                    \E li \in v.body.line_items : li.id = q.pk)
             => CartView(c)' =
                   [status |-> 200,
                    body |-> [order |-> v.body.order, line_items |-> {},
                              size |-> 0]]]_vars

\* C11 witness: Orders.clear_cart was answered 204, the one line item ever
\* inserted is gone and the caller's cart view is that open order, size 0.
C11_Witness ==
    \E r \in Workers :
        /\ Answered(r, "clear_cart")
        /\ reqs[r].status = 204
        /\ CartView(reqs[r].caller).status = 200
        /\ CartView(reqs[r].caller).body.order = reqs[r].read.id
        /\ CartView(reqs[r].caller).body.size = 0
        /\ nextLineId = 2 /\ lineitems = {}

\* C12: DELETE /profile/cart answers 404 when it finds no open order of the
\* caller and 204 when the caller has an open order.
C12_CartDeleteStatus ==
    \A r \in Workers :
        Answered(r, "cart_delete")
        => /\ reqs[r].found = 0 => reqs[r].status = 404
           /\ reqs[r].found >= 1 => reqs[r].status = 204

\* C13: DELETE /profile/cart and Orders.clear_cart delete only line items
\* of an order that belongs to the caller and is Open.
C13_ClearOnlyOwnOpen ==
    [][\A r \in Workers :
          Acts(r, {"cart_delete", "clear_cart"})
          => \A li \in lineitems \ lineitems' :
                \E o \in orders : /\ o.id = li.order
                                  /\ o.customer = reqs'[r].caller
                                  /\ o.payment_type = NULL]_vars

\* C14: every line item references an order that exists.
C14_LineItemHasOrder ==
    \A li \in lineitems : \E o \in orders : o.id = li.order

\* C14 witness: a POST /profile/cart that had resolved the open order
\* inserted its line item while a DELETE /profile/cart of the same customer
\* was deleting that order; both are answered and the order is gone.
C14_Witness ==
    \E r1 \in Workers, r2 \in Workers :
        /\ Answered(r1, "cart_delete") /\ reqs[r1].status = 204
        /\ Answered(r2, "cart_post") /\ reqs[r2].status = 200
        /\ reqs[r2].caller = reqs[r1].caller
        /\ reqs[r2].read.id = reqs[r1].read.id
        /\ reqs[r2].body.order = reqs[r1].read.id
        /\ \A o \in orders : o.id # reqs[r1].read.id

\* C15: number_sold of a product is the number of its line items that are
\* not on an open order, and a step that completes an open order raises it
\* by the number of the product's line items on that order.
C15_NumberSold ==
    [][\A p \in Products :
          /\ NumberSold(p) + Cardinality({li \in lineitems :
                                  /\ li.product = p
                                  /\ \E o \in orders : /\ o.id = li.order
                                                       /\ o.payment_type = NULL})
                = Cardinality({li \in lineitems : li.product = p})
          /\ \A o \in orders :
                (/\ o.payment_type = NULL
                 /\ \E n \in orders' : n.id = o.id /\ n.payment_type # NULL)
                => NumberSold(p)' = NumberSold(p)
                      + Cardinality({li \in LineItemsOf(o.id) : li.product = p})]_vars

\* C15 witness: a product has been sold once and is also on an open order.
C15_Witness ==
    \E p \in Products :
        /\ NumberSold(p) = 1
        /\ \E li \in lineitems :
              /\ li.product = p
              /\ \E o \in orders : o.id = li.order /\ o.payment_type = NULL

\* ------------------------------------------------- Product.average_rating
RECURSIVE GCD(_, _)
GCD(a, b) == IF b = 0 THEN a ELSE GCD(b, a % b)

\* the same division rounded down to a whole number
FloorDivide(a, b) == [num |-> a \div b, den |-> 1]

\* product.py 93: total_rating / len(ratings), Python's true division of two
\* integers; the quotient is kept as the fraction in lowest terms
TrueDivide(a, b) == [num |-> a \div GCD(a, b), den |-> b \div GCD(a, b)]

\* product.py 87-90: total_rating = 0; for rating in ratings: total_rating +=
\* rating.rating
RECURSIVE TotalRating(_, _, _)
TotalRating(rows, i, total) ==
    IF i > Len(rows) THEN total
    ELSE TotalRating(rows, i + 1, total + rows[i].rating)

\* product.py 79-96: ZeroDivisionError (no ratings) is caught and gives 0
AverageRating(p) ==
    LET rows == SelectSeq(ratings, LAMBDA x : x.product = p)
        total == TotalRating(rows, 1, 0)
    IN IF Len(rows) = 0 THEN [num |-> 0, den |-> 1]
       ELSE TrueDivide(total, Len(rows))

\* a product's average_rating is read
ReadAverageRating ==
    /\ \E p \in Products : average' = [product |-> p, value |-> AverageRating(p)]
    /\ UNCHANGED <<cartVars, favVars, catalogVars, ratings>>

RatingRows == [product : Products, rating : RatingValues]

\* any table of at most MaxRatings ratings
InitRating ==
    /\ orders = {}
    /\ lineitems = {}
    /\ nextOrderId = 1
    /\ nextLineId = 1
    /\ now = 0
    /\ reqs = [r \in Workers |-> Idle]
    /\ issued = 0
    /\ run = [c \in Customers |-> NoRun]
    /\ \E n \in 0..MaxRatings : ratings \in [1..n -> RatingRows]
    /\ average = NoAverage
    /\ likes = {}
    /\ favorites = {}
    /\ nextLikeId = 1
    /\ nextFavoriteId = 1
    /\ freqs = [r \in Workers |-> FIdle]
    /\ fissued = 0
    /\ products = DefaultProducts
    /\ nextProductId = FirstNewProductId
    /\ listing = NoListing

NextRating == ReadAverageRating

SpecRating == InitRating /\ [][NextRating]_vars

\* the rating values of product p, by row
RECURSIVE SumOfRows(_, _)
SumOfRows(ids, p) ==
    IF ids = {} THEN 0
    ELSE LET i == CHOOSE x \in ids : TRUE
         IN (IF ratings[i].product = p THEN ratings[i].rating ELSE 0)
            + SumOfRows(ids \ {i}, p)

\* C16: average_rating is the sum of the product's rating values divided by
\* their number when the product has a rating, and 0 when it has none.
C16_AverageRating ==
    average.product # NULL =>
        LET p == average.product
            n == Cardinality({i \in DOMAIN ratings : ratings[i].product = p})
            v == average.value
        IN /\ v.den > 0
           /\ n = 0 => v.num = 0
           /\ n > 0 => v.num * n = SumOfRows(DOMAIN ratings, p) * v.den

\* C16 witness: the average of two ratings that is not a whole number has
\* been read.
C16_Witness ==
    /\ average.product # NULL
    /\ Cardinality({i \in DOMAIN ratings :
                       ratings[i].product = average.product}) = 2
    /\ average.value.den = 2

\* ------------------------------------------------- likes and favorite sellers
FBusy(r) == freqs[r].pc \notin {"idle", "done"}

FCanAccept(r) == ~FBusy(r) /\ fissued < MaxRequests

FRespond(q, st, b) == [q EXCEPT !.pc = "done", !.status = st, !.body = b]

\* the same lookup with the product id compared to the row's own id
LikesOfRowId(u, p) == {f \in likes : f.user = u /\ f.id = p}

\* product.py 438-440, 472-474: FavoriteProduct.objects.filter(user=user,
\* product=product)
LikesOf(u, p) == {f \in likes : f.user = u /\ f.product = p}

\* favoriteproduct.py 7-16: user is a OneToOneField (unique), and
\* (user, product) is unique together
LikeIsUnique(u, p) == /\ \A f \in likes : f.user # u
                      /\ LikesOf(u, p) = {}

\* product.py 429-447: like_product.  An unknown product is a 404; a like
\* that exists is answered 200 "Product already liked" with its id
LikeGet(r) ==
    /\ FCanAccept(r)
    /\ \E u \in Customers, p \in ProductIds :
         LET got == LikesOf(u, p)
             q == [FIdle EXCEPT !.op = "like", !.caller = u, !.arg = p]
         IN freqs' = [freqs EXCEPT ![r] =
               IF p \notin Products THEN FRespond(q, 404, NULL)
               ELSE IF got # {}
                    THEN LET f == CHOOSE x \in got :
                                     \A y \in got : x.id <= y.id
                         IN FRespond([q EXCEPT !.row = f.id], 200, f.id)
                    ELSE [q EXCEPT !.pc = "create"]]
    /\ fissued' = fissued + 1
    /\ UNCHANGED <<cartVars, ratingVars, catalogVars, likes, favorites, nextLikeId,
                   nextFavoriteId>>

\* product.py 450-452: FavoriteProduct.objects.create(...); 201.  A row that
\* breaks a unique constraint raises IntegrityError (uncaught: 500)
LikeCreate(r) ==
    /\ freqs[r].op = "like" /\ freqs[r].pc = "create"
    /\ LET q == freqs[r]
       IN IF ~LikeIsUnique(q.caller, q.arg)
          THEN /\ freqs' = [freqs EXCEPT ![r] = FRespond(q, 500, NULL)]
               /\ UNCHANGED <<likes, nextLikeId>>
          ELSE /\ nextLikeId <= MaxLikes
               /\ likes' = likes \cup {[id |-> nextLikeId, user |-> q.caller,
                                        product |-> q.arg]}
               /\ nextLikeId' = nextLikeId + 1
               /\ freqs' = [freqs EXCEPT ![r] =
                     FRespond([q EXCEPT !.row = nextLikeId], 201, NULL)]
    /\ UNCHANGED <<cartVars, ratingVars, catalogVars, favorites, nextFavoriteId, fissued>>

\* product.py 470-474, 478-482: delete_favorite looks up the caller's own like
UnlikeGet(r) ==
    /\ FCanAccept(r)
    /\ \E u \in Customers, p \in ProductIds :
         LET got == LikesOf(u, p)
             q == [FIdle EXCEPT !.op = "unlike", !.caller = u, !.arg = p]
         IN freqs' = [freqs EXCEPT ![r] =
               IF got = {} THEN FRespond(q, 404, NULL)
               ELSE [q EXCEPT !.pc = "delete",
                              !.row = (CHOOSE x \in got : TRUE).id]]
    /\ fissued' = fissued + 1
    /\ UNCHANGED <<cartVars, ratingVars, catalogVars, likes, favorites, nextLikeId,
                   nextFavoriteId>>

\* product.py 475-476: favorite_to_delete.delete(); 204
UnlikeDelete(r) ==
    /\ freqs[r].op = "unlike" /\ freqs[r].pc = "delete"
    /\ likes' = {f \in likes : f.id # freqs[r].row}
    /\ freqs' = [freqs EXCEPT ![r] = FRespond(@, 204, NULL)]
    /\ UNCHANGED <<cartVars, ratingVars, catalogVars, favorites, nextLikeId, nextFavoriteId,
                   fissued>>

\* the same lookup with customer and seller exchanged
FavoriteGetSwapped(c, s) == {f \in favorites : f.customer = s /\ f.seller = c}

\* profile.py 413-415: the lookup of get_or_create(customer=customer,
\* seller=seller)
FavoriteGet(c, s) == {f \in favorites : f.customer = c /\ f.seller = s}

\* Favorite rows are unique per (customer, seller)
FavoriteIsUnique(c, s) == \A f \in favorites : ~(f.customer = c /\ f.seller = s)

\* a check that lets every seller through
OwnStoreNever(seller, customer) == FALSE

\* profile.py 407: if seller == customer
OwnStore(seller, customer) == seller = customer

\* profile.py 390-415: a missing store_id is a 400, an unknown store a 404,
\* one's own store a 400; then get_or_create looks the favorite up
FavPostGet(r) ==
    /\ FCanAccept(r)
    /\ \E c \in Customers, sid \in StoreIds :
         LET q == [FIdle EXCEPT !.op = "fav_post", !.caller = c, !.arg = sid]
         IN freqs' = [freqs EXCEPT ![r] =
               IF sid = NULL THEN FRespond(q, 400, NULL)
               ELSE IF sid \notin Stores THEN FRespond(q, 404, NULL)
               ELSE IF OwnStore(StoreSeller(sid), c) THEN FRespond(q, 400, NULL)
               ELSE LET got == FavoriteGet(c, StoreSeller(sid))
                    IN IF got # {}
                       THEN LET f == CHOOSE x \in got : TRUE
                            IN FRespond([q EXCEPT !.row = f.id], 200, f.id)
                       ELSE [q EXCEPT !.pc = "create"]]
    /\ fissued' = fissued + 1
    /\ UNCHANGED <<cartVars, ratingVars, catalogVars, likes, favorites, nextLikeId,
                   nextFavoriteId>>

\* profile.py 413-419: get_or_create found nothing and creates the row; 201.
\* An IntegrityError sends it back to the lookup
FavPostCreate(r) ==
    /\ freqs[r].op = "fav_post" /\ freqs[r].pc = "create"
    /\ LET q == freqs[r]
           s == StoreSeller(q.arg)
       IN IF ~FavoriteIsUnique(q.caller, s)
          THEN /\ freqs' = [freqs EXCEPT ![r] =
                     [q EXCEPT !.pc = "reget", !.retried = TRUE]]
               /\ UNCHANGED <<favorites, nextFavoriteId>>
          ELSE /\ nextFavoriteId <= MaxFavorites
               /\ favorites' = favorites \cup
                     {[id |-> nextFavoriteId, customer |-> q.caller,
                       seller |-> s]}
               /\ nextFavoriteId' = nextFavoriteId + 1
               /\ freqs' = [freqs EXCEPT ![r] =
                     FRespond([q EXCEPT !.row = nextFavoriteId], 201,
                              nextFavoriteId)]
    /\ UNCHANGED <<cartVars, ratingVars, catalogVars, likes, nextLikeId, fissued>>

\* profile.py 413-421: after the IntegrityError get_or_create looks the row
\* up again: the row found is answered 200; if it is gone the IntegrityError
\* is raised (uncaught: 500)
FavPostReGet(r) ==
    /\ freqs[r].op = "fav_post" /\ freqs[r].pc = "reget"
    /\ LET q == freqs[r]
           got == FavoriteGet(q.caller, StoreSeller(q.arg))
       IN freqs' = [freqs EXCEPT ![r] =
             IF got # {}
             THEN LET f == CHOOSE x \in got : TRUE
                  IN FRespond([q EXCEPT !.row = f.id], 200, f.id)
             ELSE FRespond(q, 500, NULL)]
    /\ UNCHANGED <<cartVars, ratingVars, catalogVars, likes, favorites, nextLikeId,
                   nextFavoriteId, fissued>>

\* a check that lets every caller through
OwnsFavoriteAlways(f, c) == TRUE

\* profile.py 453: favorite.customer.user != request.auth.user
OwnsFavorite(f, c) == f.customer = c

\* profile.py 441-457, 462-465: a missing favorite_id is a 400, an unknown
\* one a 404, another customer's a 403
FavDeleteGet(r) ==
    /\ FCanAccept(r)
    /\ \E c \in Customers, id \in FavoriteIds :
         LET got == {f \in favorites : f.id = id}
             q == [FIdle EXCEPT !.op = "fav_delete", !.caller = c, !.arg = id]
         IN freqs' = [freqs EXCEPT ![r] =
               IF id = 0 THEN FRespond(q, 400, NULL)
               ELSE IF got = {} THEN FRespond(q, 404, NULL)
               ELSE IF ~OwnsFavorite(CHOOSE x \in got : TRUE, c)
                    THEN FRespond([q EXCEPT !.row = id], 403, NULL)
                    ELSE [q EXCEPT !.pc = "delete", !.row = id]]
    /\ fissued' = fissued + 1
    /\ UNCHANGED <<cartVars, ratingVars, catalogVars, likes, favorites, nextLikeId,
                   nextFavoriteId>>

\* profile.py 459-460: favorite.delete(); 204
FavDeleteRow(r) ==
    /\ freqs[r].op = "fav_delete" /\ freqs[r].pc = "delete"
    /\ favorites' = {f \in favorites : f.id # freqs[r].row}
    /\ freqs' = [freqs EXCEPT ![r] = FRespond(@, 204, NULL)]
    /\ UNCHANGED <<cartVars, ratingVars, catalogVars, likes, nextLikeId, nextFavoriteId,
                   fissued>>

\* only like and favorite-seller requests arrive
NextFav == \E r \in Workers :
    \/ LikeGet(r)
    \/ LikeCreate(r)
    \/ UnlikeGet(r)
    \/ UnlikeDelete(r)
    \/ FavPostGet(r)
    \/ FavPostCreate(r)
    \/ FavPostReGet(r)
    \/ FavDeleteGet(r)
    \/ FavDeleteRow(r)

SpecFav == Init /\ [][NextFav]_vars

\* worker r takes a step of one of the like / favorite operations ops
FActs(r, ops) == freqs'[r] # freqs[r] /\ freqs'[r].op \in ops

\* C17: a like of a product the same user already likes is answered 200
\* "already liked" with the id of the existing row and creates nothing, and
\* no step of any like leaves more than one FavoriteProduct row for a
\* (user, product) pair
C17_SecondLikeCreatesNothing == [][
    /\ \A u \in Customers, p \in Products :
         Cardinality({f \in likes' : f.user = u /\ f.product = p}) <= 1
    /\ \A r \in Workers, u \in Customers, p \in Products :
         LET had == {f \in likes : f.user = u /\ f.product = p}
         IN (/\ FActs(r, {"like"})
             /\ freqs[r].pc \in {"idle", "done"}
             /\ freqs'[r].caller = u /\ freqs'[r].arg = p
             /\ had # {})
            => /\ freqs'[r].pc = "done"
               /\ freqs'[r].status = 200
               /\ \E f \in had : freqs'[r].body = f.id
               /\ likes' = likes
               /\ Cardinality({f \in likes' : f.user = u /\ f.product = p}) = 1
  ]_vars

\* one like was created (201), the same user's second like of the same
\* product was answered "already liked" with its id, and one row exists
C17_Witness ==
    \E r1, r2 \in Workers :
      /\ r1 # r2
      /\ freqs[r1].op = "like" /\ freqs[r1].status = 201
      /\ freqs[r2].op = "like" /\ freqs[r2].status = 200
      /\ freqs[r2].caller = freqs[r1].caller /\ freqs[r2].arg = freqs[r1].arg
      /\ freqs[r2].body = freqs[r1].row
      /\ Cardinality(likes) = 1

\* C18: no step leaves two Favorite rows for one (customer, seller) pair; a
\* favorite request for a pair that already has its row is answered 200 with
\* that row and adds nothing, also when it lost the race of two concurrent
\* requests; 201 is answered only by the step that creates the pair's first row
C18_OneFavoritePerPair == [][
    /\ \A c, s \in Customers :
         Cardinality({f \in favorites' : f.customer = c /\ f.seller = s}) <= 1
    /\ \A r \in Workers, c \in Customers, sid \in Stores :
         LET had == {f \in favorites :
                       f.customer = c /\ f.seller = StoreSeller(sid)}
         IN (/\ FActs(r, {"fav_post"})
             /\ freqs'[r].caller = c /\ freqs'[r].arg = sid)
            => /\ (had # {} /\ c # StoreSeller(sid) /\ freqs[r].pc # "create")
                    => /\ freqs'[r].pc = "done" /\ freqs'[r].status = 200
                       /\ \E f \in had : freqs'[r].body = f.id
               /\ (freqs'[r].pc = "done" /\ freqs'[r].status = 200)
                    => /\ favorites' = favorites
                       /\ \E f \in had : freqs'[r].body = f.id
               /\ (freqs'[r].pc = "done" /\ freqs'[r].status = 201)
                    => /\ had = {}
                       /\ \E f \in favorites' \ favorites :
                            /\ f.customer = c /\ f.seller = StoreSeller(sid)
                            /\ favorites' = favorites \cup {f}
               /\ (freqs'[r].pc \notin {"done"} \/ freqs'[r].status \notin {201})
                    => favorites' = favorites
  ]_vars

\* two concurrent requests of one customer for one seller: one created the
\* row (201), the other one hit the constraint and was answered 200 with it
C18_Witness ==
    \E r1, r2 \in Workers :
      /\ r1 # r2
      /\ freqs[r1].op = "fav_post" /\ freqs[r1].status = 201
      /\ freqs[r2].op = "fav_post" /\ freqs[r2].status = 200
      /\ freqs[r2].retried
      /\ freqs[r2].caller = freqs[r1].caller /\ freqs[r2].arg = freqs[r1].arg
      /\ freqs[r2].body = freqs[r1].row
      /\ Cardinality(favorites) = 1

\* C19: a favorite request for a store whose seller is the caller is answered
\* 400 at once and leaves the Favorite rows alone, and no Favorite row ever
\* has its customer as its seller
C19_NoSelfFavorite == [][
    /\ \A f \in favorites' : f.customer # f.seller
    /\ \A r \in Workers :
         (/\ FActs(r, {"fav_post"})
          /\ freqs'[r].arg \in Stores
          /\ StoreSeller(freqs'[r].arg) = freqs'[r].caller)
         => /\ freqs'[r].pc = "done"
            /\ freqs'[r].status = 400
            /\ favorites' = favorites
  ]_vars

\* a customer asked for its own store while another customer's favorite
\* exists, and was answered 400
C19_Witness ==
    \E r \in Workers :
      /\ freqs[r].op = "fav_post" /\ freqs[r].status = 400
      /\ freqs[r].arg \in Stores
      /\ StoreSeller(freqs[r].arg) = freqs[r].caller
      /\ favorites # {}

\* C20: a FavoriteProduct row disappears only in a step of an unlike of that
\* product by the row's user, a Favorite row only in a step of a delete by
\* the row's customer; a delete naming another customer's Favorite is
\* answered 403 and leaves the rows alone
C20_DeleteOnlyOwn == [][
    /\ \A f \in likes \ likes' :
         \E r \in Workers : /\ FActs(r, {"unlike"})
                            /\ freqs[r].caller = f.user
                            /\ freqs[r].arg = f.product
    /\ \A f \in favorites \ favorites' :
         \E r \in Workers : /\ FActs(r, {"fav_delete"})
                            /\ freqs[r].caller = f.customer
                            /\ freqs[r].arg = f.id
    /\ \A r \in Workers, f \in favorites :
         (/\ FActs(r, {"fav_delete"})
          /\ freqs[r].pc \in {"idle", "done"}
          /\ freqs'[r].arg = f.id
          /\ freqs'[r].caller # f.customer)
         => /\ freqs'[r].pc = "done"
            /\ freqs'[r].status = 403
            /\ favorites' = favorites
  ]_vars

\* a delete naming another customer's Favorite was refused and the row is
\* still there
C20_Witness ==
    \E r \in Workers, f \in favorites :
      /\ freqs[r].op = "fav_delete" /\ freqs[r].status = 403
      /\ freqs[r].arg = f.id
      /\ freqs[r].caller # f.customer

\* ------------------------------------------------- Products.list
Absent == -1                       \* a query parameter that was not sent
ListPrices == {Dollars(10), Dollars(20)}
Locations == {<<"A", "b">>, <<"c">>}
\* the rows the first product of a listed catalog is drawn from
ListRows(id) == [id : {id}, price : ListPrices, quantity : {0, 1},
                 store : Stores, category : Categories, location : Locations]
\* the rows the second product is drawn from
OtherRows(id) == [id : {id}, price : ListPrices, quantity : {1},
                  store : {2}, category : {2}, location : {<<"c">>}]
\* the query strings sent to GET /products
ListQueries == [store_id : {Absent, 1}, category_id : {Absent, 1},
                min_price : {Absent, Dollars(20)},
                max_price : {Absent, Dollars(10)},
                quantity : {Absent, 1}, number_sold : {Absent, 1},
                location : {<<>>, <<"a">>},
                direction : {"none", "asc", "desc"},
                sold_only : BOOLEAN]

\* str.lower() of one character
LowerChar(ch) == CASE ch = "A" -> "a" [] ch = "B" -> "b" [] ch = "C" -> "c"
                   [] OTHER -> ch

Lower(str) == [i \in 1..Len(str) |-> LowerChar(str[i])]

\* the same test with the case of the letters kept
ContainsExact(hay, needle) ==
    \E i \in 1..(Len(hay) - Len(needle) + 1) :
        SubSeq(hay, i, i + Len(needle) - 1) = needle

\* product.py 337: location__icontains
IContains(hay, needle) ==
    \E i \in 1..(Len(hay) - Len(needle) + 1) :
        SubSeq(Lower(hay), i, i + Len(needle) - 1) = Lower(needle)

\* product.py 314-318: Count("lineitems",
\* filter=Q(lineitems__order__payment_type__isnull=False))
OrdersCount(p) ==
    Cardinality({li \in lineitems :
                   /\ li.product = p
                   /\ \E o \in orders : o.id = li.order /\ o.payment_type # NULL})

\* the same chain with the price bounds compared strictly
ListFilterStrict(q) ==
    {p \in products :
       /\ q.store_id # Absent => p.store = q.store_id
       /\ q.sold_only => OrdersCount(p.id) > 0
       /\ q.category_id # Absent => p.category = q.category_id
       /\ q.min_price # Absent => p.price > q.min_price
       /\ q.max_price # Absent => p.price < q.max_price
       /\ q.quantity # Absent => p.quantity >= q.quantity
       /\ q.location # <<>> => IContains(p.location, q.location)}

\* product.py 297, 310-331, 336-337: the chain of filters, each one applied
\* when its parameter was sent and is not empty
ListFilter(q) ==
    {p \in products :
       /\ q.store_id # Absent => p.store = q.store_id
       /\ q.sold_only => OrdersCount(p.id) > 0
       /\ q.category_id # Absent => p.category = q.category_id
       /\ q.min_price # Absent => p.price >= q.min_price
       /\ q.max_price # Absent => p.price <= q.max_price
       /\ q.quantity # Absent => p.quantity >= q.quantity
       /\ q.location # <<>> => IContains(p.location, q.location)}

\* product.py 340-343: order_by("price") / order_by("-price"); rows of equal
\* price, and all rows when no direction is sent, come in the order the
\* database picks
Orderings(rows, direction) ==
    {s \in [1..Cardinality(rows) -> rows] :
       /\ \A i, j \in DOMAIN s : i # j => s[i] # s[j]
       /\ direction = "asc" => \A i, j \in DOMAIN s :
                                  i < j => s[i].price <= s[j].price
       /\ direction = "desc" => \A i, j \in DOMAIN s :
                                   i < j => s[i].price >= s[j].price}

\* product.py 297-352.  number_sold is a property of Product, not a column
\* and not an annotation: filter(number_sold__gte=...) raises FieldError
\* (uncaught: 500)
ProductList ==
    /\ listing.op = "list" /\ listing.status = 0
    /\ LET q == listing.query
       IN IF q.number_sold # Absent
          THEN listing' = [listing EXCEPT !.status = 500]
          ELSE \E s \in Orderings(ListFilter(q), q.direction) :
                 listing' = [listing EXCEPT
                               !.status = 200,
                               !.body = [i \in DOMAIN s |-> s[i].id]]
    /\ UNCHANGED <<cartVars, ratingVars, favVars, products, nextProductId>>

\* the catalogs a product list is asked of, and the request: two products,
\* order 1 of customer 1 completed, order 2 of customer 2 open, up to
\* MaxSold line items, and a GET /products that has arrived
InitList ==
    /\ orders = {[id |-> 1, customer |-> 1, payment_type |-> 1,
                  completed_date |-> 1],
                 [id |-> 2, customer |-> 2, payment_type |-> NULL,
                  completed_date |-> NULL]}
    /\ \E n \in 0..MaxSold :
         /\ \E f \in [1..n -> [order : {1, 2}, product : Products]] :
              lineitems = {[id |-> i, order |-> f[i].order,
                            product |-> f[i].product] : i \in 1..n}
         /\ nextLineId = n + 1
    /\ nextOrderId = 3
    /\ now = 1
    /\ reqs = [r \in Workers |-> Idle]
    /\ issued = 0
    /\ run = [c \in Customers |-> NoRun]
    /\ ratings = <<>>
    /\ average = NoAverage
    /\ likes = {}
    /\ favorites = {}
    /\ nextLikeId = 1
    /\ nextFavoriteId = 1
    /\ freqs = [r \in Workers |-> FIdle]
    /\ fissued = 0
    /\ \E a \in ListRows(1), b \in OtherRows(2) : products = {a, b}
    /\ nextProductId = FirstNewProductId
    /\ \E q \in ListQueries :
         listing = [op |-> "list", query |-> q, status |-> 0, body |-> <<>>]

NextList == ProductList

SpecList == InitList /\ [][NextList]_vars

\* the ids in a list response
Listed == {listing.body[i] : i \in DOMAIN listing.body}

\* C21: a product list without number_sold is answered 200 with each
\* product once, and a product is in it exactly when it has the store and
\* the category asked for, a price between min_price and max_price (both
\* included), at least the quantity asked for and a location that contains
\* the text asked for in any case, each only if sent; asc / desc put the
\* list in price order and change nothing else
C21_ListFilters ==
    (/\ listing.op = "list" /\ listing.status # 0
     /\ listing.query.number_sold = Absent)
    => LET q == listing.query
           Row(id) == CHOOSE p \in products : p.id = id
       IN /\ listing.status = 200
          /\ \A i, j \in DOMAIN listing.body :
               i # j => listing.body[i] # listing.body[j]
          /\ \A p \in products :
               p.id \in Listed <=>
                 /\ q.store_id # Absent => p.store = q.store_id
                 /\ q.category_id # Absent => p.category = q.category_id
                 /\ q.min_price # Absent => q.min_price <= p.price
                 /\ q.max_price # Absent => p.price <= q.max_price
                 /\ q.quantity # Absent => p.quantity >= q.quantity
                 /\ q.location # <<>> =>
                      \E i \in 1..Len(p.location) :
                        LowerChar(p.location[i]) = LowerChar(q.location[1])
                 /\ q.sold_only =>
                      \E li \in lineitems :
                        /\ li.product = p.id
                        /\ \E o \in orders :
                             o.id = li.order /\ o.payment_type # NULL
          /\ Listed \subseteq {p.id : p \in products}
          /\ q.direction = "asc" =>
               \A i, j \in DOMAIN listing.body :
                 i < j => Row(listing.body[i]).price <= Row(listing.body[j]).price
          /\ q.direction = "desc" =>
               \A i, j \in DOMAIN listing.body :
                 i < j => Row(listing.body[i]).price >= Row(listing.body[j]).price

\* a list asked with a price that is exactly min_price of one product and a
\* location in another case returned that product and left the other out
C21_Witness ==
    /\ listing.op = "list" /\ listing.status = 200
    /\ listing.query.min_price # Absent
    /\ listing.query.location # <<>>
    /\ listing.query.direction = "desc"
    /\ Len(listing.body) = 1
    /\ \E p \in products : /\ p.id = listing.body[1]
                           /\ p.price = listing.query.min_price
                           /\ p.location # Lower(p.location)

\* C22: a product list with number_sold = n is answered 200 with exactly the
\* products whose number_sold is at least n, and one with sold_only with
\* exactly those (of the products the other filters let through) whose
\* number_sold is above 0
C22_SoldFilters ==
    (listing.op = "list" /\ listing.status # 0)
    => LET q == listing.query
       IN /\ listing.status = 200
          /\ q.number_sold # Absent =>
               \A id \in Listed : NumberSold(id) >= q.number_sold
          /\ q.sold_only => \A id \in Listed : NumberSold(id) > 0
          /\ \A p \in ListFilter([q EXCEPT !.sold_only = FALSE]) :
               (/\ q.number_sold # Absent => NumberSold(p.id) >= q.number_sold
                /\ q.sold_only => NumberSold(p.id) > 0)
               => p.id \in Listed

\* ------------------------------------------------- Products.create / update
MinPrice == 0                      \* MinValueValidator(0.00) of Product.price
MaxPrice == 17500                  \* MaxValueValidator(17500.00) of Product.price
MinQuantity == 0                   \* MinValueValidator(0) of Product.quantity
PRICE_THRESHOLD == 1000            \* expensive_products_report
INEXPENSIVE_MAX == 999             \* inexpensive_products_report: price__lte=999

\* price and quantity values a client may send
PriceValues == {Dollars(MinPrice) - 1, Dollars(INEXPENSIVE_MAX) + 50,
                Dollars(PRICE_THRESHOLD), Dollars(MaxPrice) + 1}
QuantityValues == {MinQuantity - 1, MinQuantity + 1}
CategoryIds == {1, 3}               \* category ids a client may send (3: no row)
ProductPks == 1..(FirstNewProductId + MaxProducts - 1)

\* models/product.py 23-25, 29-31: the validators declared on the fields
FieldsValid(price, quantity) ==
    /\ Dollars(MinPrice) <= price /\ price <= Dollars(MaxPrice)
    /\ MinQuantity <= quantity

\* product.py 119-147.  ProductCategory.DoesNotExist is not caught (500).
\* new_product.save() inserts the row as it is: Model.save() does not run
\* the validators of the fields (only full_clean() does, and nothing calls it)
ProductCreate ==
    /\ \E price \in PriceValues, quantity \in QuantityValues,
          cat \in CategoryIds :
         LET in == [pk |-> NULL, price |-> price, quantity |-> quantity,
                    category |-> cat]
         IN IF cat \notin Categories
            THEN /\ listing' = [op |-> "create", query |-> in, status |-> 500,
                                body |-> {}]
                 /\ UNCHANGED <<products, nextProductId>>
            ELSE /\ nextProductId < FirstNewProductId + MaxProducts
                 /\ products' = products \cup
                       {[id |-> nextProductId, price |-> price,
                         quantity |-> quantity, store |-> NULL,
                         category |-> cat, location |-> <<"c">>]}
                 /\ nextProductId' = nextProductId + 1
                 /\ listing' = [op |-> "create", query |-> in, status |-> 201,
                                body |-> {nextProductId}]
    /\ UNCHANGED <<cartVars, ratingVars, favVars>>

\* product.py 212-228.  Product.DoesNotExist and
\* ProductCategory.DoesNotExist are not caught (500); product.save() writes
\* the row as it is
ProductUpdate ==
    /\ \E pk \in ProductPks, price \in PriceValues,
          quantity \in QuantityValues, cat \in CategoryIds :
         LET in == [pk |-> pk, price |-> price, quantity |-> quantity,
                    category |-> cat]
             got == {p \in products : p.id = pk}
         IN IF got = {} \/ cat \notin Categories
            THEN /\ listing' = [op |-> "update", query |-> in, status |-> 500,
                                body |-> {}]
                 /\ UNCHANGED products
            ELSE /\ products' = (products \ got) \cup
                       {[p EXCEPT !.price = price, !.quantity = quantity,
                                  !.category = cat] : p \in got}
                 /\ listing' = [op |-> "update", query |-> in, status |-> 204,
                                body |-> {}]
    /\ UNCHANGED <<cartVars, ratingVars, favVars, nextProductId>>

\* ------------------------------------------------- product reports
\* reports.py 102: Product.objects.filter(price__lte=999)
InexpensiveProducts == {p \in products : p.price <= Dollars(INEXPENSIVE_MAX)}

\* reports.py 82-85: Product.objects.filter(price__gte=PRICE_THRESHOLD)
ExpensiveProducts == {p \in products : p.price >= Dollars(PRICE_THRESHOLD)}

\* reports.py 80-97
ExpensiveProductsReport ==
    /\ listing' = [op |-> "expensive", query |-> NULL, status |-> 200,
                   body |-> {p.id : p \in ExpensiveProducts}]
    /\ UNCHANGED <<cartVars, ratingVars, favVars, products, nextProductId>>

\* reports.py 100-114
InexpensiveProductsReport ==
    /\ listing' = [op |-> "inexpensive", query |-> NULL, status |-> 200,
                   body |-> {p.id : p \in InexpensiveProducts}]
    /\ UNCHANGED <<cartVars, ratingVars, favVars, products, nextProductId>>

\* products are created and updated, and the two product reports are read
NextCatalog ==
    \/ ProductCreate
    \/ ProductUpdate
    \/ ExpensiveProductsReport
    \/ InexpensiveProductsReport

SpecCatalog == Init /\ [][NextCatalog]_vars

\* C23: every Product row has a price from 0 to 17500 and a quantity of at
\* least 0, and a create or an update that carries a price or a quantity
\* outside these bounds is answered with an error and changes no row
C23_ProductBounds == [][
    /\ \A p \in products' : FieldsValid(p.price, p.quantity)
    /\ (/\ listing' # listing
        /\ listing'.op \in {"create", "update"}
        /\ ~FieldsValid(listing'.query.price, listing'.query.quantity))
       => /\ listing'.status >= 400
          /\ products' = products
  ]_vars

\* C24: the expensive report holds exactly the products priced at or above
\* 1000 and the inexpensive report exactly those priced below 1000, so
\* that every product is in exactly one of the two
C24_ReportsSplit ==
    /\ listing.op = "expensive" =>
         listing.body = {p.id : p \in {x \in products :
                                         x.price >= Dollars(PRICE_THRESHOLD)}}
    /\ listing.op = "inexpensive" =>
         listing.body = {p.id : p \in {x \in products :
                                         x.price < Dollars(PRICE_THRESHOLD)}}
    /\ \A p \in products :
         (p \in ExpensiveProducts) # (p \in InexpensiveProducts)

\* ------------------------------------------------- Orders.retrieve
\* order.py 92-104: the order is looked up by pk and owner and serialized
\* with its line items; Order.DoesNotExist is a 404
Retrieve(r) ==
    /\ CanAccept(r)
    /\ \E c \in Customers, pk \in OrderIds :
         LET got == OrderGet(pk, c)
             q == [Idle EXCEPT !.op = "retrieve", !.caller = c, !.pk = pk,
                               !.found = Cardinality(got)]
         IN reqs' = [reqs EXCEPT ![r] =
               IF got = {} THEN Respond(q, 404, NoBody)
               ELSE LET o == CHOOSE x \in got : TRUE
                    IN Respond([q EXCEPT !.read = o], 200,
                               CartBody(o, LineItemsOf(o.id)))]
    /\ issued' = issued + 1
    /\ UNCHANGED <<otherVars, orders, lineitems, nextOrderId, nextLineId, now,
                   run>>

\* orders are filled, completed, cleared and retrieved
NextLookup == \E r \in Workers :
    \/ CartPostGet(r)
    \/ CartPostCreate(r)
    \/ CartPostItem(r)
    \/ CompleteGet(r)
    \/ CompleteSave(r)
    \/ ClearCartGet(r)
    \/ ClearCartItems(r)
    \/ Retrieve(r)

SpecLookup == Init /\ [][NextLookup]_vars

\* the lookups by order id
Lookups == {"retrieve", "complete", "clear_cart"}

\* C25: the whole response of retrieve, complete and clear_cart to a request
\* that names an order of another customer is the response to a request that
\* names no order at all: 404 with a body fixed by the request alone
C25_ForeignAsAbsent == [][
    \A r \in Workers :
       (/\ reqs'[r] # reqs[r]
        /\ reqs'[r].op \in Lookups
        /\ reqs[r].pc \in {"idle", "done"}
        /\ \A o \in orders :
              o.id = reqs'[r].pk => o.customer # reqs'[r].caller)
       => reqs'[r] = [Idle EXCEPT !.op = reqs'[r].op,
                                  !.caller = reqs'[r].caller,
                                  !.pk = reqs'[r].pk,
                                  !.arg = reqs'[r].arg,
                                  !.pc = "done",
                                  !.status = 404]
  ]_vars

\* the same lookup was made of another customer's order and of an id no
\* order ever had, and both responses are the same 404
C25_Witness ==
    \E r1, r2 \in Workers :
      /\ r1 # r2
      /\ Answered(r1, "retrieve") /\ Answered(r2, "retrieve")
      /\ \E o \in orders : o.id = reqs[r1].pk /\ o.customer # reqs[r1].caller
      /\ reqs[r2].pk >= nextOrderId
      /\ reqs[r1].status = 404
      /\ reqs[r2].status = reqs[r1].status
      /\ reqs[r2].body = reqs[r1].body
      /\ reqs[r2].read = reqs[r1].read

\* C26: no step of an add-to-cart request whose product_id matches no
\* product changes an order or a line item, and the request is answered
\* 404 or 400
C26_UnknownProductNoEffect == [][
    \A r \in Workers :
       (/\ reqs'[r] # reqs[r]
        /\ reqs'[r].op = "cart_post"
        /\ reqs'[r].arg \notin Products)
       => /\ orders' = orders
          /\ lineitems' = lineitems
          /\ reqs'[r].pc = "done" => reqs'[r].status \in {400, 404}
  ]_vars

\* ------------------------------------------------- order reports
\* the values of the status parameter a client may send
StatusParams == {"none", "incomplete", "complete"}

\* the same queryset without its conditions
IncompleteOrdersAll == {o \in orders : TRUE}

\* reports.py 14-16: Order.objects.filter(payment_type__isnull=True,
\* completed_date__isnull=True)
IncompleteOrders == {o \in orders : /\ o.payment_type = NULL
                                    /\ o.completed_date = NULL}

\* reports.py 51-53: Order.objects.filter(payment_type__isnull=False,
\* completed_date__isnull=False)
CompletedOrders == {o \in orders : /\ o.payment_type # NULL
                                   /\ o.completed_date # NULL}

RECURSIVE SumPrices(_)
\* reports.py 22, 57: sum(item.product.price for item in order.lineitems.all())
SumPrices(items) ==
    IF items = {} THEN 0
    ELSE LET li == CHOOSE x \in items : TRUE
             p == CHOOSE x \in products : x.id = li.product
         IN p.price + SumPrices(items \ {li})

\* reports.py 19-34, 55-72: one entry per order
OrdersData(rows) == {[order_id |-> o.id, customer |-> o.customer,
                      total_cost |-> SumPrices(LineItemsOf(o.id))] : o \in rows}

\* reports.py 6-41: without status=incomplete the report is empty
IncompleteOrdersReport ==
    /\ issued < MaxRequests
    /\ \E st \in StatusParams :
         listing' = [op |-> "incomplete_orders", query |-> st, status |-> 200,
                     body |-> IF st # "incomplete" THEN {}
                              ELSE OrdersData(IncompleteOrders)]
    /\ issued' = issued + 1
    /\ UNCHANGED <<ratingVars, favVars, products, nextProductId, orders,
                   lineitems, nextOrderId, nextLineId, now, reqs, run>>

\* reports.py 44-77: without status=complete the report is empty
CompletedOrdersReport ==
    /\ issued < MaxRequests
    /\ \E st \in StatusParams :
         listing' = [op |-> "completed_orders", query |-> st, status |-> 200,
                     body |-> IF st # "complete" THEN {}
                              ELSE OrdersData(CompletedOrders)]
    /\ issued' = issued + 1
    /\ UNCHANGED <<ratingVars, favVars, products, nextProductId, orders,
                   lineitems, nextOrderId, nextLineId, now, reqs, run>>

\* carts are filled and completed, and the reports are read
NextReports ==
    \/ \E r \in Workers :
         \/ CartPostGet(r)
         \/ CartPostCreate(r)
         \/ CartPostItem(r)
         \/ CompleteGet(r)
         \/ CompleteSave(r)
    \/ IncompleteOrdersReport
    \/ CompletedOrdersReport
    \/ ExpensiveProductsReport
    \/ InexpensiveProductsReport

SpecReports == Init /\ [][NextReports]_vars

\* carts are filled, cleared, paid and completed, and the order reports are
\* read
NextOrders ==
    \/ \E r \in Workers :
         \/ CartPostGet(r)
         \/ CartPostCreate(r)
         \/ CartPostItem(r)
         \/ CompleteGet(r)
         \/ CompleteSave(r)
         \/ UpdateGet(r)
         \/ UpdateSave(r)
         \/ ClearCartGet(r)
         \/ ClearCartItems(r)
    \/ IncompleteOrdersReport
    \/ CompletedOrdersReport

SpecOrders == Init /\ [][NextOrders]_vars

\* a step of one of the reports
ReportStep == \/ IncompleteOrdersReport
              \/ CompletedOrdersReport
              \/ ExpensiveProductsReport
              \/ InexpensiveProductsReport

C30_ReportsPartition ==
    \A o \in orders : (o \in IncompleteOrders) # (o \in CompletedOrders)

\* C28: no step inserts a line item into an order that has a payment_type,
\* and the line items of an order that has a payment_type stay the same
C28_NoInsertIntoCompleted == [][
    /\ \A li \in lineitems' \ lineitems :
         \A o \in orders : o.id = li.order => o.payment_type = NULL
    /\ \A o \in orders :
         o.payment_type # NULL =>
           {li \in lineitems' : li.order = o.id} = LineItemsOf(o.id)
  ]_vars

\* C29: a like of an existing product that the user does not like yet is
\* answered 201 and its row exists afterwards, whatever else the user
\* likes; an unlike removes the row of its own product only
C29_LikesIndependent == [][
    \A r \in Workers :
       /\ (/\ FActs(r, {"like"})
           /\ freqs'[r].pc = "done"
           /\ freqs'[r].arg \in Products
           /\ \A f \in likes : ~(/\ f.user = freqs'[r].caller
                                 /\ f.product = freqs'[r].arg))
          => /\ freqs'[r].status = 201
             /\ \E f \in likes' : /\ f.user = freqs'[r].caller
                                  /\ f.product = freqs'[r].arg
       /\ FActs(r, {"unlike"})
          => \A f \in likes \ likes' : f.product = freqs'[r].arg
  ]_vars

====
